---- MODULE Spec2Model ----
(***************************************************************************)
(* Kiosk control server: the in-memory tablet registry (activeTablets),    *)
(* the socket and REST command dispatch built on it, the staleness sweep,  *)
(* and the fire-and-forget writes to the PostgreSQL gateway.               *)
(*                                                                         *)
(* Node runs every handler to completion on one thread, so each handler is *)
(* one action.  The queries issued by db.updateTablet / db.logCommand are  *)
(* not awaited: they sit in `pending` until the pool applies them (in any  *)
(* order) or they fail.                                                    *)
(***************************************************************************)
EXTENDS Integers, Sequences, FiniteSets, TLC

(***************************************************************************)
(* Bounds of the model                                                     *)
(***************************************************************************)
\* number of clock advances explored
MaxTicks == 3
\* number of queries that may be in flight at the pool at once
MaxPending == 2
\* number of command-log rows (stored or in flight) explored
MaxLogs == 1

(***************************************************************************)
(* Program constants                                                       *)
(***************************************************************************)
\* 5 * 60 * 1000 ms: age beyond which the sweep evicts a tablet
STALE_MS == 300000
\* 5 * 60 * 1000 ms: period of the setInterval timer
SWEEP_PERIOD_MS == 300000

(***************************************************************************)
(* JavaScript values                                                       *)
(***************************************************************************)
\* the value of a missing payload field / of Map.get on a missing key
Undefined == "<undefined>"

\* the values || treats as false among those the model uses
Falsy(v) == v \in {Undefined, ""}

\* a || b
Or(a, b) == IF Falsy(a) THEN b ELSE a

\* the payload of an event that carries none
NoData == [none |-> TRUE]

\* socket ids handed out by socket.io, in the order connections may use them
SocketIds == {"sock0001-a", "sock0002-b"}

\* socket.id.substring(0, 8)
Substring08(sid) ==
    CASE sid = "sock0001-a" -> "sock0001"
      [] sid = "sock0002-b" -> "sock0002"
      [] OTHER -> sid

\* socket.handshake.address
HandshakeAddress(sid) ==
    CASE sid = "sock0001-a" -> "10.0.0.1"
      [] sid = "sock0002-b" -> "10.0.0.2"
      [] OTHER -> "10.0.0.254"

\* req.ip of the REST caller
RestIp == "10.0.0.9"

\* new Date(ms).toISOString(): seconds and milliseconds of the instant
ToISOString(ms) == [sec |-> ms \div 1000, msec |-> ms % 1000]

\* new Date(isoString): the instant in ms
DateParse(iso) == iso.sec * 1000 + iso.msec

(***************************************************************************)
(* Inputs                                                                  *)
(***************************************************************************)
\* 'tablet-register' payloads (every field optional): between them every field
\* is once supplied with a value and once omitted or empty
RegisterPayloads ==
    { [tabletId |-> "A", name |-> "Lobby", ip |-> Undefined,
       currentUrl |-> Undefined, uptime |-> Undefined, stats |-> Undefined],
      [tabletId |-> Undefined, name |-> "", ip |-> "192.168.1.7",
       currentUrl |-> "http://a", uptime |-> "01:00:00", stats |-> "{cpu:5}"] }

\* 'tablet-status' payloads (every field optional): a field present and empty,
\* a field present with a value, a field omitted
StatusPayloads ==
    { [currentUrl |-> "", uptime |-> "00:10:00", stats |-> Undefined] }

\* tabletId values of a dispatch; Undefined is a 'send-command' without tabletId
DispatchIds == {"A", "Z"}

\* 'send-command' payloads / REST command bodies
CommandPayloads ==
    { [tabletId |-> t, command |-> "reload", params |-> "{}"] :
        t \in DispatchIds \cup {Undefined} }

\* 'command-executed' payloads
ExecutedPayloads ==
    { [command |-> "reload", success |-> TRUE, message |-> "ok"] }

\* clock advances: one second, and one second short of the stale threshold
TickSteps == {1000, STALE_MS - 1000}

(***************************************************************************)
(* State                                                                   *)
(***************************************************************************)
VARIABLES
    now,            \* Date.now()
    ticks,          \* clock advances so far
    nextSweep,      \* earliest time the setInterval callback runs next
    sockets,        \* io.sockets.sockets: ids of open sockets, in Map order
    usedIds,        \* socket ids handed out so far
    activeTablets,  \* the Map: sequence of [key, val] entries in Map order
    pending,        \* queries issued to the pool and not yet settled
    dbTablets,      \* rows of table tablets (at most one per id)
    dbLogs,         \* rows of table command_logs, in insertion order
    everIds,        \* ids some tablet-register has ever put in the registry
    lastOp,         \* the handler that ran last: kind, socket, payload, result
    out,            \* messages that handler emitted, in emission order
    trace,          \* 'disconnect': entry presence and status after each statement
    scen            \* progress of the lifecycle scenario (register A .. dispatch)

vars == <<now, ticks, nextSweep, sockets, usedIds, activeTablets, pending,
          dbTablets, dbLogs, everIds, lastOp, out, trace, scen>>

(***************************************************************************)
(* Map operations on activeTablets                                         *)
(***************************************************************************)
MapKeys(m) == { m[i].key : i \in 1..Len(m) }

MapHas(m, k) == k \in MapKeys(m)

MapIndex(m, k) == CHOOSE i \in 1..Len(m) : m[i].key = k

\* Map.get: Undefined for a missing key
MapGet(m, k) == IF MapHas(m, k) THEN m[MapIndex(m, k)].val ELSE Undefined

\* MapSet keyed by the record's logical id: the entry written replaces every
\* entry whose record carries the same id
MapSetByLogicalId(m, k, v) ==
    Append(SelectSeq(m, LAMBDA e : e.key # k /\ e.val.id # v.id),
           [key |-> k, val |-> v])

\* MapSet that rebuilds the Map around the one entry written
MapSetAlone(m, k, v) == <<[key |-> k, val |-> v]>>

\* Map.set: an existing key keeps its position, a new key goes last
MapSet(m, k, v) ==
    IF MapHas(m, k)
    THEN [m EXCEPT ![MapIndex(m, k)] = [key |-> k, val |-> v]]
    ELSE Append(m, [key |-> k, val |-> v])

\* Map.delete
MapDelete(m, k) == SelectSeq(m, LAMBDA e : e.key # k)

\* [...m.values()]
MapValues(m) == [i \in 1..Len(m) |-> m[i].val]

\* IdOf giving the Map key of the record for its logical id
IdOfKey(m, sid) == IF MapHas(m, sid) THEN sid ELSE Undefined

\* activeTablets.get(sid)?.id
IdOf(m, sid) == IF MapHas(m, sid) THEN MapGet(m, sid).id ELSE Undefined

\* Array.prototype.find, given for each element whether the callback accepts
\* it: the index of the first accepted element, 0 if there is none
FindIndex(accepts) ==
    IF \E i \in 1..Len(accepts) : accepts[i]
    THEN CHOOSE i \in 1..Len(accepts) :
             accepts[i] /\ \A j \in 1..(i - 1) : ~accepts[j]
    ELSE 0

(***************************************************************************)
(* socket.io                                                               *)
(***************************************************************************)
\* BroadcastTargets of io.emit: every open socket, the sender included
BroadcastTargetsAll(socks, sid) == socks

\* the sockets socket.broadcast.emit reaches: every open socket but the sender
BroadcastTargets(socks, sid) == SelectSeq(socks, LAMBDA s : s # sid)

\* socket.broadcast.emit(ev, payload) from socket sid
BroadcastEmit(socks, sid, ev, payload) ==
    LET to == BroadcastTargets(socks, sid)
    IN  [i \in 1..Len(to) |-> [ev |-> ev, to |-> to[i], payload |-> payload]]

\* someSocket.emit(ev, payload)
SocketEmit(sid, ev, payload) == <<[ev |-> ev, to |-> sid, payload |-> payload]>>

(***************************************************************************)
(* database-postgres.js                                                    *)
(***************************************************************************)
\* the INSERT .. ON CONFLICT (id) DO UPDATE that db.updateTablet issues; its
\* parameters are read from tabletInfo when the call is made
UpdateTabletQuery(tabletInfo) ==
    [table |-> "tablets",
     row |-> [id |-> tabletInfo.id, name |-> tabletInfo.name,
              ip |-> tabletInfo.ip, status |-> tabletInfo.status,
              current_url |-> tabletInfo.currentUrl,
              last_seen |-> DateParse(tabletInfo.lastSeen),
              uptime |-> tabletInfo.uptime, stats |-> tabletInfo.stats]]

\* the INSERT INTO command_logs that db.logCommand issues
LogCommandQuery(commandInfo) ==
    [table |-> "command_logs",
     row |-> [tablet_id |-> commandInfo.tabletId,
              command |-> commandInfo.command,
              params |-> commandInfo.params,
              timestamp |-> DateParse(commandInfo.timestamp),
              source_ip |-> commandInfo.sourceIp]]

\* ON CONFLICT (id) DO UPDATE: the row replaces the one with its id
UpsertTablet(rows, row) == { r \in rows : r.id # row.id } \cup {row}

\* command_logs.tablet_id is NOT NULL and references tablets (id)
LogInsertAccepted(rows, row) ==
    /\ row.tablet_id # Undefined
    /\ \E r \in rows : r.id = row.tablet_id

\* command-log rows stored or in flight
LogCount ==
    Len(dbLogs) + Len(SelectSeq(pending, LAMBDA q : q.table = "command_logs"))

RemoveAt(s, i) == [j \in 1..(Len(s) - 1) |-> IF j < i THEN s[j] ELSE s[j + 1]]

(***************************************************************************)
(* Registry handlers: the values they compute                              *)
(***************************************************************************)
\* RegisterRecord without the socket id as the default id
RegisterRecordNoDefaultId(sid, data, t) ==
    [id |-> data.tabletId,
     name |-> Or(data.name, "Tablet-" \o Substring08(sid)),
     ip |-> Or(data.ip, HandshakeAddress(sid)),
     status |-> "online",
     currentUrl |-> Or(data.currentUrl, ""),
     lastSeen |-> ToISOString(t),
     uptime |-> Or(data.uptime, "00:00:00"),
     stats |-> Or(data.stats, "{}")]

\* tabletInfo built by 'tablet-register'
RegisterRecord(sid, data, t) ==
    [id |-> Or(data.tabletId, sid),
     name |-> Or(data.name, "Tablet-" \o Substring08(sid)),
     ip |-> Or(data.ip, HandshakeAddress(sid)),
     status |-> "online",
     currentUrl |-> Or(data.currentUrl, ""),
     lastSeen |-> ToISOString(t),
     uptime |-> Or(data.uptime, "00:00:00"),
     stats |-> Or(data.stats, "{}")]

\* the record after 'tablet-status' has merged data into it
StatusMerge(tablet, data, t) ==
    [tablet EXCEPT !.currentUrl = Or(data.currentUrl, tablet.currentUrl),
                   !.uptime = Or(data.uptime, tablet.uptime),
                   !.stats = Or(data.stats, tablet.stats),
                   !.lastSeen = ToISOString(t)]

\* StatusEffect reporting the missing record to the peer
StatusEffectReportsError(m, socks, sid, data, t) ==
    IF MapHas(m, sid)
    THEN LET tablet == StatusMerge(MapGet(m, sid), data, t)
         IN  [tablets |-> MapSet(m, sid, tablet),
              queries |-> <<UpdateTabletQuery(tablet)>>,
              emits |-> BroadcastEmit(socks, sid, "tablet-status-update", tablet)]
    ELSE [tablets |-> m, queries |-> <<>>,
          emits |-> SocketEmit(sid, "status-error", [error |-> "Tablet no registrada"])]

\* what 'tablet-status' does: the registry, the queries and the messages
StatusEffect(m, socks, sid, data, t) ==
    IF MapHas(m, sid)
    THEN LET tablet == StatusMerge(MapGet(m, sid), data, t)
         IN  [tablets |-> MapSet(m, sid, tablet),
              queries |-> <<UpdateTabletQuery(tablet)>>,
              emits |-> BroadcastEmit(socks, sid, "tablet-status-update", tablet)]
    ELSE [tablets |-> m, queries |-> <<>>, emits |-> <<>>]

\* OfflineRecord without the status assignment
OfflineRecordStatusKept(tablet, t) == [tablet EXCEPT !.lastSeen = ToISOString(t)]

\* the record 'disconnect' marks offline
OfflineRecord(tablet, t) ==
    [tablet EXCEPT !.status = "offline", !.lastSeen = ToISOString(t)]

\* DisconnectTrace with the record flagged offline in place and not deleted
DisconnectTraceFlagInPlace(m, sid, t) ==
    LET tablet == OfflineRecord(MapGet(m, sid), t)
        marked == MapSet(m, sid, tablet)
    IN  [tablet |-> tablet,
         tablets |-> marked,
         steps |-> << [inMap |-> MapHas(marked, sid), status |-> tablet.status],
                      [inMap |-> MapHas(marked, sid), status |-> tablet.status] >>]

\* DisconnectTrace with Map.delete moved before the record is marked
DisconnectTraceDeleteFirst(m, sid, t) ==
    LET before == MapGet(m, sid)
        tablet == [before EXCEPT !.status = "offline", !.lastSeen = ToISOString(t)]
        deleted == MapDelete(m, sid)
    IN  [tablet |-> tablet,
         tablets |-> deleted,
         steps |-> << [inMap |-> MapHas(deleted, sid), status |-> before.status],
                      [inMap |-> MapHas(deleted, sid), status |-> tablet.status] >>]

\* 'disconnect' statement by statement, as seen through the Map: whether the
\* entry is still in activeTablets and the status of the tablet object, after
\* the object is marked (the Map holds that same object) and after Map.delete
DisconnectTrace(m, sid, t) ==
    LET tablet == OfflineRecord(MapGet(m, sid), t)
        marked == MapSet(m, sid, tablet)
        deleted == MapDelete(marked, sid)
    IN  [tablet |-> tablet,
         tablets |-> deleted,
         steps |-> << [inMap |-> MapHas(marked, sid), status |-> tablet.status],
                      [inMap |-> MapHas(deleted, sid), status |-> tablet.status] >>]

(***************************************************************************)
(* Command dispatch: target lookup                                         *)
(***************************************************************************)
\* SocketLookup with the id comparison lost: the first socket that has a record
SocketLookupAnyRecord(socks, m, tabletId) ==
    LET i == FindIndex([j \in 1..Len(socks) |-> MapHas(m, socks[j])])
    IN  IF i = 0 THEN Undefined ELSE socks[i]

\* 'send-command': [...io.sockets.sockets.values()]
\*     .find(s => activeTablets.get(s.id)?.id === tabletId); Undefined if none
SocketLookup(socks, m, tabletId) ==
    LET i == FindIndex([j \in 1..Len(socks) |-> IdOf(m, socks[j]) = tabletId])
    IN  IF i = 0 THEN Undefined ELSE socks[i]

\* REST: [...activeTablets.entries()].find(([_, t]) => t.id === tabletId)?.[0],
\* then io.sockets.sockets.get(socketId); Undefined if either finds nothing
RestLookup(socks, m, tabletId) ==
    LET i == FindIndex([j \in 1..Len(m) |-> m[j].val.id = tabletId])
    IN  IF i = 0 THEN Undefined
        ELSE IF \E j \in 1..Len(socks) : socks[j] = m[i].key THEN m[i].key
        ELSE Undefined

\* DispatchEffect with the command emitted twice
DispatchEffectTwice(target, data, t, sourceIp) ==
    IF target # Undefined
    THEN [result |-> "Accepted",
          emits |-> SocketEmit(target, "remote-command",
                               [command |-> data.command, params |-> data.params])
                    \o SocketEmit(target, "remote-command",
                               [command |-> data.command, params |-> data.params]),
          queries |-> <<LogCommandQuery([tabletId |-> data.tabletId,
                                         command |-> data.command,
                                         params |-> data.params,
                                         timestamp |-> ToISOString(t),
                                         sourceIp |-> sourceIp])>>]
    ELSE [result |-> "NotFound", emits |-> <<>>, queries |-> <<>>]

\* what either dispatch path does once the target is looked up
DispatchEffect(target, data, t, sourceIp) ==
    IF target # Undefined
    THEN [result |-> "Accepted",
          emits |-> SocketEmit(target, "remote-command",
                               [command |-> data.command, params |-> data.params]),
          queries |-> <<LogCommandQuery([tabletId |-> data.tabletId,
                                         command |-> data.command,
                                         params |-> data.params,
                                         timestamp |-> ToISOString(t),
                                         sourceIp |-> sourceIp])>>]
    ELSE [result |-> "NotFound", emits |-> <<>>, queries |-> <<>>]

(***************************************************************************)
(* Staleness sweep                                                         *)
(***************************************************************************)
\* IsStale that takes only records already marked offline for stale
IsStaleOfflineOnly(tablet, t) ==
    tablet.status = "offline" /\ DateParse(tablet.lastSeen) < t - STALE_MS

\* IsStale with <= for <
IsStaleInclusive(tablet, t) == DateParse(tablet.lastSeen) <= t - STALE_MS

\* new Date(tablet.lastSeen) < fiveMinutesAgo, fiveMinutesAgo = now - 5 min
IsStale(tablet, t) == DateParse(tablet.lastSeen) < t - STALE_MS

\* SweepFrom that marks stale entries offline and writes them but leaves them
\* in the Map
RECURSIVE SweepFromFlagInPlace(_, _, _)
SweepFromFlagInPlace(m, i, t) ==
    IF i > Len(m) THEN [tablets |-> <<>>, queries |-> <<>>]
    ELSE LET rest == SweepFromFlagInPlace(m, i + 1, t)
             e == m[i]
             marked == [e EXCEPT !.val.status = "offline"]
         IN  IF IsStale(e.val, t)
             THEN [tablets |-> <<marked>> \o rest.tablets,
                   queries |-> <<UpdateTabletQuery(marked.val)>> \o rest.queries]
             ELSE [tablets |-> <<e>> \o rest.tablets,
                   queries |-> rest.queries]

\* the for-of loop over activeTablets.entries() from entry i on: stale entries
\* are marked offline, written and deleted, the others are kept as they are
RECURSIVE SweepFrom(_, _, _)
SweepFrom(m, i, t) ==
    IF i > Len(m) THEN [tablets |-> <<>>, queries |-> <<>>]
    ELSE LET rest == SweepFrom(m, i + 1, t)
             e == m[i]
         IN  IF IsStale(e.val, t)
             THEN [tablets |-> rest.tablets,
                   queries |-> <<UpdateTabletQuery([e.val EXCEPT !.status = "offline"])>>
                               \o rest.queries]
             ELSE [tablets |-> <<e>> \o rest.tablets,
                   queries |-> rest.queries]

\* messages the sweep callback emits: it has no emit statement
SweepEmits(socks, m, t) == <<>>

(***************************************************************************)
(* GET /api/stats                                                          *)
(***************************************************************************)
\* the stats object: activeTablets.size, the number of values whose status is
\* 'online', the seconds since the process started, the time of the request
Stats(m, t) ==
    [totalTablets |-> Len(m),
     onlineTablets |-> Len(SelectSeq(MapValues(m),
                                     LAMBDA tablet : tablet.status = "online")),
     serverUptime |-> t \div 1000,
     timestamp |-> ToISOString(t)]

(***************************************************************************)
(* Lifecycle scenario observer                                             *)
(*   1 a tablet registers {tabletId: "A", name: "Lobby"} in an empty       *)
(*     registry, 2 "reload" is dispatched to "A", 3 the tablet's socket    *)
(*     disconnects, 4 "reload" is dispatched to "A" again.                 *)
(* New connections, clock advances and queries applied in issue order do   *)
(* not disturb the scenario; any other step ends it.                       *)
(***************************************************************************)
NoScenario == [step |-> 0, conn |-> Undefined]

IsReloadA(data) == data.tabletId = "A" /\ data.command = "reload"

ScenAfter(kind, sid, data) ==
    IF /\ kind = "tablet-register"
       /\ data.tabletId = "A" /\ data.name = "Lobby"
       /\ activeTablets = <<>>
    THEN [step |-> 1, conn |-> sid]
    ELSE IF /\ kind \in {"send-command", "rest-command"}
            /\ scen.step \in {1, 3}
            /\ IsReloadA(data)
    THEN [scen EXCEPT !.step = scen.step + 1]
    ELSE IF kind = "disconnect" /\ scen.step = 2 /\ sid = scen.conn
    THEN [scen EXCEPT !.step = 3]
    ELSE IF kind \in {"connection", "tick", "db-apply-head"} /\ scen.step \in 1..3
    THEN scen
    ELSE NoScenario

(***************************************************************************)
(* Initial state: server constructed, no socket, empty tables              *)
(***************************************************************************)
Init ==
    /\ now = 0
    /\ ticks = 0
    /\ nextSweep = SWEEP_PERIOD_MS
    /\ sockets = <<>>
    /\ usedIds = {}
    /\ activeTablets = <<>>
    /\ pending = <<>>
    /\ dbTablets = {}
    /\ dbLogs = <<>>
    /\ everIds = {}
    /\ lastOp = [kind |-> "init", conn |-> Undefined, data |-> NoData,
                 result |-> Undefined]
    /\ out = <<>>
    /\ trace = <<>>
    /\ scen = NoScenario

(***************************************************************************)
(* Actions                                                                 *)
(***************************************************************************)
\* io.on('connection'): a new socket with a fresh id
Connect(sid) ==
    /\ sid \in SocketIds \ usedIds
    /\ sockets' = Append(sockets, sid)
    /\ usedIds' = usedIds \cup {sid}
    /\ lastOp' = [kind |-> "connection", conn |-> sid, data |-> NoData,
                  result |-> Undefined]
    /\ out' = <<>>
    /\ trace' = <<>>
    /\ scen' = ScenAfter("connection", sid, NoData)
    /\ UNCHANGED <<now, ticks, nextSweep, activeTablets, pending, dbTablets,
                   dbLogs, everIds>>

\* socket.on('tablet-register')
Register(sid, data) ==
    /\ \E i \in 1..Len(sockets) : sockets[i] = sid
    /\ Len(pending) < MaxPending
    /\ LET tabletInfo == RegisterRecord(sid, data, now)
       IN  /\ activeTablets' = MapSet(activeTablets, sid, tabletInfo)
           /\ pending' = Append(pending, UpdateTabletQuery(tabletInfo))
           /\ out' = BroadcastEmit(sockets, sid, "tablet-online", tabletInfo)
           /\ everIds' = everIds \cup {tabletInfo.id}
    /\ lastOp' = [kind |-> "tablet-register", conn |-> sid, data |-> data,
                  result |-> Undefined]
    /\ trace' = <<>>
    /\ scen' = ScenAfter("tablet-register", sid, data)
    /\ UNCHANGED <<now, ticks, nextSweep, sockets, usedIds, dbTablets, dbLogs>>

\* socket.on('tablet-status')
Status(sid, data) ==
    /\ \E i \in 1..Len(sockets) : sockets[i] = sid
    /\ LET eff == StatusEffect(activeTablets, sockets, sid, data, now)
       IN  /\ Len(pending) + Len(eff.queries) <= MaxPending
           /\ activeTablets' = eff.tablets
           /\ pending' = pending \o eff.queries
           /\ out' = eff.emits
    /\ lastOp' = [kind |-> "tablet-status", conn |-> sid, data |-> data,
                  result |-> Undefined]
    /\ trace' = <<>>
    /\ scen' = ScenAfter("tablet-status", sid, data)
    /\ UNCHANGED <<now, ticks, nextSweep, sockets, usedIds, dbTablets, dbLogs, everIds>>

\* socket.on('send-command')
SendCommand(sid, data) ==
    /\ \E i \in 1..Len(sockets) : sockets[i] = sid
    /\ LET target == SocketLookup(sockets, activeTablets, data.tabletId)
           eff == DispatchEffect(target, data, now, HandshakeAddress(sid))
       IN  /\ Len(pending) + Len(eff.queries) <= MaxPending
           /\ LogCount + Len(eff.queries) <= MaxLogs
           /\ pending' = pending \o eff.queries
           /\ out' = IF eff.result = "Accepted" THEN eff.emits
                     ELSE SocketEmit(sid, "command-error",
                                     [error |-> "Tablet no encontrada o desconectada",
                                      tabletId |-> data.tabletId])
           /\ lastOp' = [kind |-> "send-command", conn |-> sid, data |-> data,
                         result |-> eff.result]
    /\ trace' = <<>>
    /\ scen' = ScenAfter("send-command", sid, data)
    /\ UNCHANGED <<now, ticks, nextSweep, sockets, usedIds, activeTablets,
                   dbTablets, dbLogs, everIds>>

\* app.post('/api/command/:tabletId'): the route parameter is always a string
RestCommand(data) ==
    /\ data.tabletId # Undefined
    /\ LET target == RestLookup(sockets, activeTablets, data.tabletId)
           eff == DispatchEffect(target, data, now, RestIp)
       IN  /\ Len(pending) + Len(eff.queries) <= MaxPending
           /\ LogCount + Len(eff.queries) <= MaxLogs
           /\ pending' = pending \o eff.queries
           /\ out' = eff.emits
           /\ lastOp' = [kind |-> "rest-command", conn |-> Undefined, data |-> data,
                         result |-> eff.result]
    /\ trace' = <<>>
    /\ scen' = ScenAfter("rest-command", Undefined, data)
    /\ UNCHANGED <<now, ticks, nextSweep, sockets, usedIds, activeTablets,
                   dbTablets, dbLogs, everIds>>

\* socket.on('command-executed')
CommandExecuted(sid, data) ==
    /\ \E i \in 1..Len(sockets) : sockets[i] = sid
    /\ out' = BroadcastEmit(sockets, sid, "command-result",
                            [tabletId |-> IdOf(activeTablets, sid),
                             command |-> data.command,
                             success |-> data.success,
                             message |-> data.message,
                             timestamp |-> ToISOString(now)])
    /\ lastOp' = [kind |-> "command-executed", conn |-> sid, data |-> data,
                  result |-> Undefined]
    /\ trace' = <<>>
    /\ scen' = ScenAfter("command-executed", sid, data)
    /\ UNCHANGED <<now, ticks, nextSweep, sockets, usedIds, activeTablets, pending,
                   dbTablets, dbLogs, everIds>>

\* socket.on('disconnect'): socket.io has already dropped the socket from
\* io.sockets.sockets when the handler runs
Disconnect(sid) ==
    /\ \E i \in 1..Len(sockets) : sockets[i] = sid
    /\ sockets' = SelectSeq(sockets, LAMBDA s : s # sid)
    /\ IF MapHas(activeTablets, sid)
       THEN LET tr == DisconnectTrace(activeTablets, sid, now)
            IN  /\ Len(pending) < MaxPending
                /\ trace' = tr.steps
                /\ activeTablets' = tr.tablets
                /\ pending' = Append(pending, UpdateTabletQuery(tr.tablet))
                /\ out' = BroadcastEmit(sockets', sid, "tablet-offline", tr.tablet)
       ELSE /\ trace' = <<>>
            /\ out' = <<>>
            /\ UNCHANGED <<activeTablets, pending>>
    /\ lastOp' = [kind |-> "disconnect", conn |-> sid, data |-> NoData,
                  result |-> Undefined]
    /\ scen' = ScenAfter("disconnect", sid, NoData)
    /\ UNCHANGED <<now, ticks, nextSweep, usedIds, dbTablets, dbLogs, everIds>>

\* the setInterval callback: it runs no earlier than one period after the last
Sweep ==
    /\ now >= nextSweep
    /\ nextSweep' = now + SWEEP_PERIOD_MS
    /\ LET res == SweepFrom(activeTablets, 1, now)
       IN  /\ Len(pending) + Len(res.queries) <= MaxPending
           /\ activeTablets' = res.tablets
           /\ pending' = pending \o res.queries
    /\ out' = SweepEmits(sockets, activeTablets, now)
    /\ lastOp' = [kind |-> "sweep", conn |-> Undefined, data |-> NoData,
                  result |-> Undefined]
    /\ trace' = <<>>
    /\ scen' = ScenAfter("sweep", Undefined, NoData)
    /\ UNCHANGED <<now, ticks, sockets, usedIds, dbTablets, dbLogs, everIds>>

\* time passes
Tick(d) ==
    /\ ticks < MaxTicks
    /\ ticks' = ticks + 1
    /\ now' = now + d
    /\ lastOp' = [kind |-> "tick", conn |-> Undefined, data |-> NoData,
                  result |-> Undefined]
    /\ out' = <<>>
    /\ trace' = <<>>
    /\ scen' = ScenAfter("tick", Undefined, NoData)
    /\ UNCHANGED <<nextSweep, sockets, usedIds, activeTablets, pending, dbTablets,
                   dbLogs, everIds>>

\* DbApply by a pool that completes queries in the order they were issued
DbApplyInOrder(i) ==
    /\ i = 1
    /\ i \in 1..Len(pending)
    /\ LET q == pending[i]
       IN  /\ dbTablets' = IF q.table = "tablets"
                           THEN UpsertTablet(dbTablets, q.row) ELSE dbTablets
           /\ dbLogs' = IF q.table = "command_logs" /\ LogInsertAccepted(dbTablets, q.row)
                        THEN Append(dbLogs, q.row) ELSE dbLogs
    /\ pending' = RemoveAt(pending, i)
    /\ lastOp' = [kind |-> "db-apply", conn |-> Undefined, data |-> NoData,
                  result |-> Undefined]
    /\ out' = <<>>
    /\ trace' = <<>>
    /\ scen' = ScenAfter("db-apply-head", Undefined, NoData)
    /\ UNCHANGED <<now, ticks, nextSweep, sockets, usedIds, activeTablets, everIds>>

\* the pool completes query i of those in flight (pool.query resolves); an
\* INSERT INTO command_logs the constraints reject is an error, caught and logged
DbApply(i) ==
    /\ i \in 1..Len(pending)
    /\ LET q == pending[i]
       IN  /\ dbTablets' = IF q.table = "tablets"
                           THEN UpsertTablet(dbTablets, q.row) ELSE dbTablets
           /\ dbLogs' = IF q.table = "command_logs" /\ LogInsertAccepted(dbTablets, q.row)
                        THEN Append(dbLogs, q.row) ELSE dbLogs
    /\ pending' = RemoveAt(pending, i)
    /\ lastOp' = [kind |-> "db-apply", conn |-> Undefined, data |-> NoData,
                  result |-> Undefined]
    /\ out' = <<>>
    /\ trace' = <<>>
    /\ scen' = ScenAfter(IF i = 1 THEN "db-apply-head" ELSE "db-apply", Undefined,
                         NoData)
    /\ UNCHANGED <<now, ticks, nextSweep, sockets, usedIds, activeTablets, everIds>>

\* DbFail with the rejected query issued again
DbFailRequeues(i) ==
    /\ i \in 1..Len(pending)
    /\ pending' = Append(RemoveAt(pending, i), pending[i])
    /\ lastOp' = [kind |-> "db-fail", conn |-> Undefined, data |-> NoData,
                  result |-> Undefined]
    /\ out' = <<>>
    /\ trace' = <<>>
    /\ scen' = ScenAfter("db-fail", Undefined, NoData)
    /\ UNCHANGED <<now, ticks, nextSweep, sockets, usedIds, activeTablets, dbTablets,
                   dbLogs, everIds>>

\* query i fails (pool.query rejects): the catch block logs and drops the error
DbFail(i) ==
    /\ i \in 1..Len(pending)
    /\ pending' = RemoveAt(pending, i)
    /\ lastOp' = [kind |-> "db-fail", conn |-> Undefined, data |-> NoData,
                  result |-> Undefined]
    /\ out' = <<>>
    /\ trace' = <<>>
    /\ scen' = ScenAfter("db-fail", Undefined, NoData)
    /\ UNCHANGED <<now, ticks, nextSweep, sockets, usedIds, activeTablets, dbTablets,
                   dbLogs, everIds>>

(***************************************************************************)
(* Specifications                                                          *)
(*                                                                         *)
(* Spec: every event arrives within one millisecond (the clock stands      *)
(* still, the sweep timer is not yet due), the database is healthy and     *)
(* each query has resolved before the next event is handled.               *)
(***************************************************************************)
PoolIdle == pending = <<>>

Next ==
    \/ \E sid \in SocketIds : Connect(sid)
    \/ \E sid \in SocketIds, data \in RegisterPayloads :
           PoolIdle /\ Register(sid, data)
    \/ \E sid \in SocketIds, data \in StatusPayloads :
           PoolIdle /\ Status(sid, data)
    \/ \E sid \in SocketIds, data \in CommandPayloads :
           PoolIdle /\ SendCommand(sid, data)
    \/ \E data \in CommandPayloads : PoolIdle /\ RestCommand(data)
    \/ \E sid \in SocketIds, data \in ExecutedPayloads : CommandExecuted(sid, data)
    \/ \E sid \in SocketIds : PoolIdle /\ Disconnect(sid)
    \/ DbApply(1)

Spec == Init /\ [][Next]_vars

(***************************************************************************)
(* SpecClock: time passes and the sweep timer fires; the database is       *)
(* unreachable, so every query is rejected (and the error swallowed)       *)
(* before the next event is handled.                                       *)
(***************************************************************************)
NextClock ==
    \/ \E sid \in SocketIds : Connect(sid)
    \/ \E sid \in SocketIds, data \in RegisterPayloads :
           PoolIdle /\ Register(sid, data)
    \/ \E sid \in SocketIds, data \in StatusPayloads :
           PoolIdle /\ Status(sid, data)
    \/ \E sid \in SocketIds : PoolIdle /\ Disconnect(sid)
    \/ PoolIdle /\ Sweep
    \/ \E d \in TickSteps : Tick(d)
    \/ \E i \in 1..MaxPending : DbFail(i)

SpecClock == Init /\ [][NextClock]_vars

(***************************************************************************)
(* Properties                                                              *)
(*                                                                         *)
(* Every action sets lastOp, so in a step lastOp' names the handler that   *)
(* ran, the unprimed variables are the state it found and the primed ones  *)
(* the state it left.                                                      *)
(***************************************************************************)
IsDispatch(op) == op.kind \in {"send-command", "rest-command"}

\* number of messages in a sequence that satisfy P
Count(msgs, P(_)) == Cardinality({ i \in 1..Len(msgs) : P(msgs[i]) })

\* the bindings (Map keys) whose record carries logical id
BindingsOf(m, id) == { k \in MapKeys(m) : MapGet(m, k).id = id }

\* C1: a dispatch (socket 'send-command' or REST) for a logical id that no
\* tablet has ever registered returns NotFound and changes nothing: no
\* 'remote-command' goes to any socket, no command-log query is issued, and the
\* registry, the stored tablet rows and the stored log rows are as before.
C1_UnknownIdNotFound ==
    [][ ( /\ IsDispatch(lastOp')
          /\ lastOp'.data.tabletId # Undefined
          /\ lastOp'.data.tabletId \notin everIds )
        => ( /\ lastOp'.result = "NotFound"
             /\ Count(out', LAMBDA msg : msg.ev = "remote-command") = 0
             /\ pending' = pending
             /\ dbLogs' = dbLogs
             /\ dbTablets' = dbTablets
             /\ activeTablets' = activeTablets ) ]_vars

\* C1 witness: with a tablet registered and a stored row, a socket asked for the
\* never-registered id "Z" and got NotFound
C1_Witness ==
    /\ lastOp.kind = "send-command"
    /\ lastOp.data.tabletId = "Z"
    /\ "Z" \notin everIds
    /\ lastOp.result = "NotFound"
    /\ activeTablets # <<>>
    /\ dbTablets # {}

\* C2: a dispatch for a logical id that an active binding carries is Accepted,
\* emits exactly one message, a 'remote-command' with the command, to the socket
\* of a binding carrying that id, and issues exactly one query, the command-log
\* insert with that id and command; it settles no query and waits for none.
C2_FoundSentOnceLoggedOnce ==
    [][ ( /\ IsDispatch(lastOp')
          /\ lastOp'.data.tabletId # Undefined
          /\ BindingsOf(activeTablets, lastOp'.data.tabletId) # {} )
        => ( /\ lastOp'.result = "Accepted"
             /\ Len(out') = 1
             /\ out'[1].ev = "remote-command"
             /\ out'[1].to \in BindingsOf(activeTablets, lastOp'.data.tabletId)
             /\ out'[1].payload.command = lastOp'.data.command
             /\ Len(pending') = Len(pending) + 1
             /\ SubSeq(pending', 1, Len(pending)) = pending
             /\ pending'[Len(pending')].table = "command_logs"
             /\ pending'[Len(pending')].row.tablet_id = lastOp'.data.tabletId
             /\ pending'[Len(pending')].row.command = lastOp'.data.command
             /\ dbLogs' = dbLogs
             /\ dbTablets' = dbTablets
             /\ activeTablets' = activeTablets ) ]_vars

\* C2 witness: with two sockets open, "reload" for "A" was accepted and sent
C2_Witness ==
    /\ IsDispatch(lastOp)
    /\ lastOp.data.tabletId = "A"
    /\ lastOp.result = "Accepted"
    /\ Len(sockets) = 2
    /\ Len(out) = 1
    /\ Len(pending) = 1

\* the entries of m that are not older than STALE_MS at time t
FreshEntries(m, t) ==
    SelectSeq(m, LAMBDA e : ~(DateParse(e.val.lastSeen) < t - STALE_MS))

\* C3: a sweep at time now leaves in the registry exactly the entries whose
\* lastSeen is not strictly earlier than now - STALE_MS, unchanged and in their
\* order: an entry last seen STALE_MS - 1 s ago stays, one last seen
\* STALE_MS + 1 s ago goes.
C3_SweepRemovesExactlyStale ==
    [][ lastOp'.kind = "sweep"
        => ( /\ activeTablets' = FreshEntries(activeTablets, now)
             /\ \A i \in 1..Len(activeTablets) :
                  LET seen == DateParse(activeTablets[i].val.lastSeen)
                  IN  /\ seen + STALE_MS - 1000 = now
                         => MapHas(activeTablets', activeTablets[i].key)
                      /\ seen + STALE_MS = now
                         => MapHas(activeTablets', activeTablets[i].key)
                      /\ seen + STALE_MS + 1000 = now
                         => ~MapHas(activeTablets', activeTablets[i].key) ) ]_vars

\* C3 witness: of two tablets the sweep evicted one (its offline query is the
\* only one in flight) and kept the one last seen STALE_MS - 1 s ago
C3_Witness ==
    /\ lastOp.kind = "sweep"
    /\ Len(activeTablets) = 1
    /\ DateParse(activeTablets[1].val.lastSeen) + STALE_MS - 1000 = now
    /\ Len(pending) = 1
    /\ pending[1].row.status = "offline"
    /\ pending[1].row.last_seen + STALE_MS + 1000 = now

\* the keys a step removes from the registry
Removed(m, mAfter) == MapKeys(m) \ MapKeys(mAfter)

\* open sockets as a set
Open(socks) == { socks[i] : i \in 1..Len(socks) }

\* C4: every binding a sweep evicts raises exactly one 'tablet-offline' event:
\* each open socket whose own binding is not evicted receives as many
\* 'tablet-offline' messages as the sweep evicted bindings, and no other message
\* is emitted.
C4_EvictionRaisesOffline ==
    [][ lastOp'.kind = "sweep"
        => ( /\ \A s \in Open(sockets) \ Removed(activeTablets, activeTablets') :
                  Count(out', LAMBDA msg : msg.ev = "tablet-offline" /\ msg.to = s)
                      = Cardinality(Removed(activeTablets, activeTablets'))
             /\ \A i \in 1..Len(out') : out'[i].ev = "tablet-offline" ) ]_vars

\* C5: 'disconnect' of a socket with a record marks the record offline, with
\* lastSeen = now, while the Map still holds it, and only then deletes it: at no
\* statement is the entry gone with the record still online; the query issued
\* and every 'tablet-offline' message carry status offline and lastSeen = now;
\* afterwards the registry has no entry for the socket.
C5_OfflineBeforeRemoval ==
    [][ ( lastOp'.kind = "disconnect" /\ MapHas(activeTablets, lastOp'.conn) )
        => ( /\ Len(trace') = 2
             /\ trace'[1].inMap /\ trace'[1].status = "offline"
             /\ ~trace'[2].inMap
             /\ \A i \in 1..Len(trace') :
                  ~trace'[i].inMap => trace'[i].status = "offline"
             /\ ~MapHas(activeTablets', lastOp'.conn)
             /\ Len(pending') = Len(pending) + 1
             /\ LET q == pending'[Len(pending')]
                    before == MapGet(activeTablets, lastOp'.conn)
                IN  /\ q.table = "tablets"
                    /\ q.row.id = before.id
                    /\ q.row.status = "offline"
                    /\ q.row.last_seen = now
             /\ \A i \in 1..Len(out') :
                  /\ out'[i].ev = "tablet-offline"
                  /\ out'[i].payload.status = "offline"
                  /\ DateParse(out'[i].payload.lastSeen) = now ) ]_vars

\* C5 witness: a socket with a record disconnected while another socket was
\* open to receive 'tablet-offline'
C5_Witness ==
    /\ lastOp.kind = "disconnect"
    /\ Len(trace) = 2
    /\ Len(out) = 1
    /\ out[1].ev = "tablet-offline"
    /\ Len(pending) = 1

\* the event a handler fans out, Undefined if it fans out none: 'tablet-status'
\* and 'disconnect' do so only for a socket that has a record
FannedOut(op, m) ==
    CASE op.kind = "tablet-register" -> "tablet-online"
      [] op.kind = "command-executed" -> "command-result"
      [] op.kind = "tablet-status" /\ MapHas(m, op.conn) -> "tablet-status-update"
      [] op.kind = "disconnect" /\ MapHas(m, op.conn) -> "tablet-offline"
      [] OTHER -> Undefined

\* C6: the event a handler fans out reaches every open socket other than the
\* handler's own socket exactly once, and never that socket.
C6_BroadcastExcludesOrigin ==
    [][ FannedOut(lastOp', activeTablets) # Undefined
        => \A s \in SocketIds :
             Count(out', LAMBDA msg : msg.ev = FannedOut(lastOp', activeTablets)
                                       /\ msg.to = s)
               = IF s \in Open(sockets') /\ s # lastOp'.conn THEN 1 ELSE 0 ]_vars

\* C6 witness: with two sockets open, one sent 'command-executed' and the other
\* received the 'command-result'
C6_Witness ==
    /\ lastOp.kind = "command-executed"
    /\ Len(sockets) = 2
    /\ Len(out) = 1
    /\ out[1].ev = "command-result"
    /\ out[1].to # lastOp.conn

\* C7: through the lifecycle scenario: after the registration the registry holds
\* exactly one record, online and named "Lobby"; the dispatch of "reload" to "A"
\* is Accepted and issues one log query, stored as a row for "A"/"reload" once
\* the pool is idle; after the disconnect the registry is empty, the query
\* issued marks "A" offline and, once the pool is idle, the stored row of "A"
\* is offline; the second dispatch returns NotFound and sends nothing.
C7_LifecycleScenario ==
    /\ scen.step = 1
       => /\ Len(activeTablets) = 1
          /\ activeTablets[1].key = scen.conn
          /\ activeTablets[1].val.id = "A"
          /\ activeTablets[1].val.status = "online"
          /\ activeTablets[1].val.name = "Lobby"
    /\ (scen.step = 2 /\ IsDispatch(lastOp))
       => /\ lastOp.result = "Accepted"
          /\ Count(pending, LAMBDA q : q.table = "command_logs") = 1
          /\ pending[Len(pending)].table = "command_logs"
          /\ pending[Len(pending)].row.tablet_id = "A"
          /\ pending[Len(pending)].row.command = "reload"
    /\ (scen.step = 2 /\ pending = <<>>)
       => /\ dbLogs # <<>>
          /\ dbLogs[Len(dbLogs)].tablet_id = "A"
          /\ dbLogs[Len(dbLogs)].command = "reload"
    /\ scen.step = 3 => activeTablets = <<>>
    /\ (scen.step = 3 /\ lastOp.kind = "disconnect")
       => /\ pending # <<>>
          /\ pending[Len(pending)].table = "tablets"
          /\ pending[Len(pending)].row.id = "A"
          /\ pending[Len(pending)].row.status = "offline"
    /\ (scen.step = 3 /\ pending = <<>>)
       => /\ \E r \in dbTablets : r.id = "A"
          /\ \A r \in dbTablets : r.id = "A" => r.status = "offline"
    /\ scen.step = 4
       => /\ lastOp.result = "NotFound"
          /\ Count(out, LAMBDA msg : msg.ev = "remote-command") = 0
          /\ activeTablets = <<>>

\* C7 witness: the scenario ran to its last step, with the offline row stored
C7_Witness ==
    /\ scen.step = 4
    /\ pending = <<>>
    /\ \E r \in dbTablets : r.id = "A" /\ r.status = "offline"
    /\ dbLogs # <<>>

\* the value 'tablet-register' stores for a field: the payload's when it
\* supplies a non-empty one, the field's default otherwise
NonEmpty(v, default) == IF v = Undefined \/ v = "" THEN default ELSE v

\* the value a merge of present fields stores: the payload's when the payload
\* carries the field, the record's otherwise
Present(v, kept) == IF v = Undefined THEN kept ELSE v

\* the mutable fields of the record a socket registers, taken from the payload
MutableFieldsFromPayload(rec, sid, data, t) ==
    /\ rec.name = NonEmpty(data.name, "Tablet-" \o Substring08(sid))
    /\ rec.ip = NonEmpty(data.ip, HandshakeAddress(sid))
    /\ rec.currentUrl = NonEmpty(data.currentUrl, "")
    /\ rec.uptime = NonEmpty(data.uptime, "00:00:00")
    /\ rec.stats = NonEmpty(data.stats, "{}")
    /\ rec.status = "online"
    /\ DateParse(rec.lastSeen) = t

\* C8 as claimed: when a socket that has a record registers again, the mutable
\* fields are overwritten from the new payload, the record keeps its logical id
\* when the payload omits tabletId and takes the payload's tabletId otherwise.
C8_ReRegisterKeepsIdWhenOmitted ==
    [][ ( lastOp'.kind = "tablet-register" /\ MapHas(activeTablets, lastOp'.conn) )
        => LET old == MapGet(activeTablets, lastOp'.conn)
               new == MapGet(activeTablets', lastOp'.conn)
           IN  /\ MutableFieldsFromPayload(new, lastOp'.conn, lastOp'.data, now)
               /\ new.id = IF lastOp'.data.tabletId = Undefined
                           THEN old.id ELSE lastOp'.data.tabletId ]_vars

\* C8 amended: when a socket that has a record registers again, its entry is
\* overwritten in place (no entry is added, the others are untouched), each
\* mutable field is the new payload's value when that is non-empty and the
\* field's default otherwise, and the logical id is the payload's tabletId when
\* the payload supplies one and the socket id when it omits it, whatever the id
\* was before.
C8_ReRegisterOverwrites ==
    [][ ( lastOp'.kind = "tablet-register" /\ MapHas(activeTablets, lastOp'.conn) )
        => LET new == MapGet(activeTablets', lastOp'.conn)
           IN  /\ Len(activeTablets') = Len(activeTablets)
               /\ \A i \in 1..Len(activeTablets) :
                    /\ activeTablets'[i].key = activeTablets[i].key
                    /\ activeTablets[i].key # lastOp'.conn
                       => activeTablets'[i] = activeTablets[i]
               /\ MutableFieldsFromPayload(new, lastOp'.conn, lastOp'.data, now)
               /\ new.id = IF lastOp'.data.tabletId = Undefined
                           THEN lastOp'.conn ELSE lastOp'.data.tabletId ]_vars

\* C8 witness: the only socket ever opened had registered as "A" and registered
\* again without tabletId: its record now carries the socket id
C8_Witness ==
    /\ lastOp.kind = "tablet-register"
    /\ lastOp.data.tabletId = Undefined
    /\ usedIds = {lastOp.conn}
    /\ "A" \in everIds
    /\ Len(activeTablets) = 1
    /\ activeTablets[1].val.id = lastOp.conn

\* C9: 'tablet-status' on a socket with a record overwrites each of currentUrl,
\* uptime and stats that the payload carries with the payload's value, empty or
\* not, keeps the ones it omits, leaves id, name, ip and status alone and sets
\* lastSeen to now.
C9_StatusMergesPresentFields ==
    [][ ( lastOp'.kind = "tablet-status" /\ MapHas(activeTablets, lastOp'.conn) )
        => LET old == MapGet(activeTablets, lastOp'.conn)
               new == MapGet(activeTablets', lastOp'.conn)
               data == lastOp'.data
           IN  /\ new.currentUrl = Present(data.currentUrl, old.currentUrl)
               /\ new.uptime = Present(data.uptime, old.uptime)
               /\ new.stats = Present(data.stats, old.stats)
               /\ new.id = old.id
               /\ new.name = old.name
               /\ new.ip = old.ip
               /\ new.status = old.status
               /\ DateParse(new.lastSeen) = now ]_vars

\* C10: 'tablet-status' on a socket without a record does nothing: the registry,
\* the queries in flight and the stored rows stay as they are and no message is
\* emitted to anyone.
C10_StatusWithoutRecordIsNoOp ==
    [][ ( lastOp'.kind = "tablet-status" /\ ~MapHas(activeTablets, lastOp'.conn) )
        => ( /\ activeTablets' = activeTablets
             /\ pending' = pending
             /\ dbTablets' = dbTablets
             /\ dbLogs' = dbLogs
             /\ out' = <<>> ) ]_vars

\* C10 witness: a status update arrived on an open socket whose record (it had
\* registered under its own socket id) the sweep has evicted, while the other
\* socket is open to receive a broadcast
C10_Witness ==
    /\ lastOp.kind = "tablet-status"
    /\ lastOp.conn \in Open(sockets)
    /\ ~MapHas(activeTablets, lastOp.conn)
    /\ lastOp.conn \in everIds
    /\ Len(sockets) = 2

\* sockets that were open once and are closed now: their 'disconnect' has run
Closed == usedIds \ Open(sockets)

\* C11: every entry of the registry is keyed by a socket that is open now: a
\* socket whose 'disconnect' has been handled has no entry, and it never has
\* one again, since a closed socket never reopens and no later step gives it
\* an entry.
C11_RecordsOnlyForOpenSockets ==
    /\ [](MapKeys(activeTablets) \subseteq Open(sockets))
    /\ [][ \A s \in Closed :
             /\ s \notin Open(sockets')
             /\ ~MapHas(activeTablets', s) ]_vars

\* C11 witness: of two sockets with a record one has disconnected: it has no
\* entry any more and the other socket's entry is still there
C11_Witness ==
    /\ lastOp.kind = "disconnect"
    /\ Len(trace) = 2
    /\ lastOp.conn \in Closed
    /\ ~MapHas(activeTablets, lastOp.conn)
    /\ Len(activeTablets) = 1

\* the handlers that are neither 'disconnect' nor the sweep and act on a message
KeepsRecords(op) ==
    op.kind \in {"tablet-register", "tablet-status", "send-command",
                 "rest-command", "command-executed"}

\* C12: a step that takes an entry out of the registry is a 'disconnect' or a
\* sweep; a 'tablet-register', 'tablet-status', dispatch or 'command-executed'
\* leaves every entry that was in the registry in it, at its position and
\* under its socket.
C12_OnlyRemoveDropsRecords ==
    [][ /\ Removed(activeTablets, activeTablets') # {}
           => lastOp'.kind \in {"disconnect", "sweep"}
        /\ KeepsRecords(lastOp')
           => /\ Len(activeTablets') >= Len(activeTablets)
              /\ \A i \in 1..Len(activeTablets) :
                   activeTablets'[i].key = activeTablets[i].key ]_vars

\* C12 witness: with two records in the registry one of the two sockets sent a
\* status update, and both records are still there
C12_Witness ==
    /\ lastOp.kind = "tablet-status"
    /\ MapHas(activeTablets, lastOp.conn)
    /\ Len(activeTablets) = 2
    /\ Len(out) = 1

(***************************************************************************)
(* SpecFaulty: the database comes and goes: each query in flight is        *)
(* either applied or rejected before the next event is handled.  One       *)
(* socket is a tablet (it registers as "A" and reports status), the other  *)
(* an observer (it sends commands for "A"); time passes in steps just      *)
(* short of the stale threshold and the sweep timer fires.                 *)
(***************************************************************************)
TabletSocket == "sock0001-a"

ObserverSocket == "sock0002-b"

\* the payloads that name logical id "A"
NamingA(payloads) == { p \in payloads : p.tabletId = "A" }

NextFaulty ==
    \/ \E sid \in SocketIds : Connect(sid)
    \/ \E data \in NamingA(RegisterPayloads) :
           PoolIdle /\ Register(TabletSocket, data)
    \/ \E data \in StatusPayloads : PoolIdle /\ Status(TabletSocket, data)
    \/ \E data \in NamingA(CommandPayloads) :
           PoolIdle /\ SendCommand(ObserverSocket, data)
    \/ \E sid \in SocketIds : PoolIdle /\ Disconnect(sid)
    \/ PoolIdle /\ Sweep
    \/ Tick(STALE_MS - 1000)
    \/ DbApply(1)
    \/ \E i \in 1..MaxPending : DbFail(i)

SpecFaulty == Init /\ [][NextFaulty]_vars

\* C13: a rejected write is swallowed.  The step in which a query is rejected
\* changes neither the registry nor the open sockets nor the tables, emits no
\* message to anyone, and takes the query out of flight without issuing it or
\* any other query again; the step in which a query is applied likewise leaves
\* the registry and the sockets alone and emits nothing.  Whatever became of
\* earlier writes, every event has the outcome the registry determines:
\* 'tablet-register' stores an online record and tells every other socket,
\* 'tablet-status' on a recorded socket tells every other socket, 'send-command'
\* is Accepted and delivers one 'remote-command' exactly when a binding carries
\* the id (and otherwise sends one 'command-error' to the sender), 'disconnect'
\* of a recorded socket removes its entry and tells every other socket, the
\* sweep leaves the fresh entries and emits nothing; no handler emits any other
\* message.
C13_FailedWriteSwallowed ==
    [][ /\ lastOp'.kind = "db-fail"
           => /\ activeTablets' = activeTablets
              /\ sockets' = sockets
              /\ dbTablets' = dbTablets
              /\ dbLogs' = dbLogs
              /\ out' = <<>>
              /\ \E i \in 1..Len(pending) : pending' = RemoveAt(pending, i)
        /\ lastOp'.kind = "db-apply"
           => /\ activeTablets' = activeTablets
              /\ sockets' = sockets
              /\ out' = <<>>
              /\ \E i \in 1..Len(pending) : pending' = RemoveAt(pending, i)
        /\ FannedOut(lastOp', activeTablets) # Undefined
           => /\ Len(out') = Cardinality(Open(sockets') \ {lastOp'.conn})
              /\ \A s \in Open(sockets') \ {lastOp'.conn} :
                   \E i \in 1..Len(out') :
                      /\ out'[i].to = s
                      /\ out'[i].ev = FannedOut(lastOp', activeTablets)
        /\ lastOp'.kind = "tablet-register"
           => /\ MapHas(activeTablets', lastOp'.conn)
              /\ MapGet(activeTablets', lastOp'.conn).status = "online"
        /\ lastOp'.kind = "tablet-status"
           => MapKeys(activeTablets') = MapKeys(activeTablets)
        /\ lastOp'.kind = "send-command"
           => /\ activeTablets' = activeTablets
              /\ Len(out') = 1
              /\ IF BindingsOf(activeTablets, lastOp'.data.tabletId) # {}
                 THEN /\ lastOp'.result = "Accepted"
                      /\ out'[1].ev = "remote-command"
                      /\ out'[1].to \in BindingsOf(activeTablets, lastOp'.data.tabletId)
                 ELSE /\ lastOp'.result = "NotFound"
                      /\ out'[1].ev = "command-error"
                      /\ out'[1].to = lastOp'.conn
        /\ lastOp'.kind = "disconnect"
           => MapKeys(activeTablets') = MapKeys(activeTablets) \ {lastOp'.conn}
        /\ lastOp'.kind = "sweep"
           => /\ activeTablets' = FreshEntries(activeTablets, now)
              /\ out' = <<>> ]_vars

\* C13 witness: the write of the tablet's registration was rejected (no row was
\* ever stored), and the observer's command for "A" was accepted and delivered
\* to the tablet all the same
C13_Witness ==
    /\ lastOp.kind = "send-command"
    /\ lastOp.result = "Accepted"
    /\ dbTablets = {}
    /\ Len(out) = 1
    /\ out[1].ev = "remote-command"
    /\ out[1].to = TabletSocket

(***************************************************************************)
(* SpecLive: tablets that fall silent.  Time keeps passing, the sweep      *)
(* timer keeps firing and the pool keeps completing queries (weak          *)
(* fairness of each); sockets register as "A" and may never disconnect.    *)
(* The clock is explored for MaxTicks advances, so a tablet speaks only    *)
(* while enough advances remain for the timer to come round after its      *)
(* threshold.                                                              *)
(***************************************************************************)
\* clock advances of STALE_MS - 1 s after which a sweep is due that finds a
\* record stale: the threshold plus one period of the timer
QuietTicks == (STALE_MS + SWEEP_PERIOD_MS) \div (STALE_MS - 1000) + 1

CanSpeak == ticks + QuietTicks <= MaxTicks

NextLive ==
    \/ \E sid \in SocketIds : Connect(sid)
    \/ \E sid \in SocketIds, data \in NamingA(RegisterPayloads) :
           PoolIdle /\ CanSpeak /\ Register(sid, data)
    \/ \E sid \in SocketIds, data \in StatusPayloads :
           PoolIdle /\ CanSpeak /\ Status(sid, data)
    \/ \E sid \in SocketIds : PoolIdle /\ Disconnect(sid)
    \/ PoolIdle /\ Sweep
    \/ Tick(STALE_MS - 1000)
    \/ DbApply(1)

SpecLive ==
    /\ Init
    /\ [][NextLive]_vars
    /\ WF_vars(Tick(STALE_MS - 1000))
    /\ WF_vars(PoolIdle /\ Sweep)
    /\ WF_vars(DbApply(1))

\* the instants the clock of SpecLive shows
LiveInstants == { k * (STALE_MS - 1000) : k \in 0..MaxTicks }

\* socket s has an entry, last heard from at instant t
HeardAt(s, t) ==
    /\ MapHas(activeTablets, s)
    /\ DateParse(MapGet(activeTablets, s).lastSeen) = t

\* C14: while time passes and the sweep timer keeps firing, every entry of the
\* registry is eventually removed unless its socket is heard from again at a
\* later instant (a 'tablet-register' or 'tablet-status' renews lastSeen): no
\* 'disconnect' is needed for that.
C14_SilentBindingEventuallyEvicted ==
    \A s \in SocketIds, t \in LiveInstants :
        HeardAt(s, t) ~> (~MapHas(activeTablets, s) \/ ~HeardAt(s, t))

\* C14 witness: a sweep has emptied a registry of two records while both
\* sockets are still open: no socket has ever disconnected
C14_Witness ==
    /\ lastOp.kind = "sweep"
    /\ activeTablets = <<>>
    /\ Len(pending) = 2
    /\ Closed = {}
    /\ Len(sockets) = 2

\* the sockets other than sid whose record carries logical id
OtherBindingsOf(m, id, sid) == BindingsOf(m, id) \ {sid}

\* C15: when a socket without a record registers a logical id that another
\* socket's record carries, the registry gains one entry, put last, for the new
\* socket, and every entry it had is unchanged.  Bindings that share an id go
\* separately: the 'disconnect' of one removes that socket's entry alone, and a
\* sweep removes of them exactly those whose own lastSeen is older than the
\* threshold; the entry that stays is unchanged.
C15_SharedIdSecondBinding ==
    [][ /\ ( /\ lastOp'.kind = "tablet-register"
             /\ ~MapHas(activeTablets, lastOp'.conn)
             /\ OtherBindingsOf(activeTablets, lastOp'.data.tabletId,
                                lastOp'.conn) # {} )
           => /\ Len(activeTablets') = Len(activeTablets) + 1
              /\ SubSeq(activeTablets', 1, Len(activeTablets)) = activeTablets
              /\ activeTablets'[Len(activeTablets')].key = lastOp'.conn
              /\ activeTablets'[Len(activeTablets')].val.id = lastOp'.data.tabletId
              /\ activeTablets'[Len(activeTablets')].val.status = "online"
        /\ \A k \in MapKeys(activeTablets) :
             OtherBindingsOf(activeTablets, MapGet(activeTablets, k).id, k) # {}
             => /\ lastOp'.kind = "disconnect"
                   => /\ MapHas(activeTablets', k) = (k # lastOp'.conn)
                      /\ k # lastOp'.conn
                         => MapGet(activeTablets', k) = MapGet(activeTablets, k)
                /\ lastOp'.kind = "sweep"
                   => /\ MapHas(activeTablets', k)
                           = ~(DateParse(MapGet(activeTablets, k).lastSeen)
                                 < now - STALE_MS)
                      /\ MapHas(activeTablets', k)
                         => MapGet(activeTablets', k) = MapGet(activeTablets, k)
      ]_vars

\* C15 witness: two sockets had registered as "A" at different times; the sweep
\* has evicted the older binding and left the younger one, still online
C15_Witness ==
    /\ lastOp.kind = "sweep"
    /\ Len(activeTablets) = 1
    /\ activeTablets[1].val.id = "A"
    /\ activeTablets[1].val.status = "online"
    /\ Len(pending) = 1
    /\ pending[1].row.id = "A"
    /\ pending[1].row.status = "offline"

\* C16: a sweep treats each entry it evicts as 'disconnect' treats its own: the
\* entry leaves the registry and a query is issued for the record's id that
\* writes status offline and last_seen = the time of the sweep.
C16_EvictionSameAsRemove ==
    [][ lastOp'.kind = "sweep"
        => \A k \in Removed(activeTablets, activeTablets') :
             \E i \in (Len(pending) + 1)..Len(pending') :
                /\ pending'[i].table = "tablets"
                /\ pending'[i].row.id = MapGet(activeTablets, k).id
                /\ pending'[i].row.status = "offline"
                /\ pending'[i].row.last_seen = now ]_vars

\* C17: 'command-executed' emits only 'command-result' messages; each carries,
\* as tabletId, the logical id of the record of the socket that sent the
\* message (no tabletId if that socket has no record) and the message's
\* command, success and message as they came; the handler changes neither the
\* registry nor the stored rows nor the queries in flight, so no command-log
\* entry is touched.
C17_ResultTaggedAndUncorrelated ==
    [][ lastOp'.kind = "command-executed"
        => /\ \A i \in 1..Len(out') :
                /\ out'[i].ev = "command-result"
                /\ out'[i].payload.tabletId
                     = IF MapHas(activeTablets, lastOp'.conn)
                       THEN MapGet(activeTablets, lastOp'.conn).id
                       ELSE Undefined
                /\ out'[i].payload.command = lastOp'.data.command
                /\ out'[i].payload.success = lastOp'.data.success
                /\ out'[i].payload.message = lastOp'.data.message
           /\ activeTablets' = activeTablets
           /\ dbLogs' = dbLogs
           /\ dbTablets' = dbTablets
           /\ pending' = pending ]_vars

\* C17 witness: the tablet registered as "A", for which a command was logged,
\* reported the execution; the other socket got a 'command-result' tagged "A"
C17_Witness ==
    /\ lastOp.kind = "command-executed"
    /\ MapHas(activeTablets, lastOp.conn)
    /\ Len(out) = 1
    /\ out[1].payload.tabletId = "A"
    /\ out[1].to # lastOp.conn
    /\ Len(dbLogs) = 1

(***************************************************************************)
(* SpecAsync: events arrive while queries are in flight.  No handler       *)
(* waits for the pool, and the pool (up to 20 connections) completes the   *)
(* queries in flight in any order.  Sockets register as "A", report        *)
(* status and disconnect; the clock stands still.                          *)
(***************************************************************************)
NextAsync ==
    \/ \E sid \in SocketIds : Connect(sid)
    \/ \E sid \in SocketIds, data \in NamingA(RegisterPayloads) :
           Register(sid, data)
    \/ \E sid \in SocketIds, data \in StatusPayloads : Status(sid, data)
    \/ \E sid \in SocketIds : Disconnect(sid)
    \/ \E i \in 1..MaxPending : DbApply(i)

SpecAsync == Init /\ [][NextAsync]_vars

\* the handler writes a tablet row: 'tablet-register' always, 'tablet-status'
\* and 'disconnect' for a socket that has a record
WritesTablet(op, m) ==
    \/ op.kind = "tablet-register"
    \/ op.kind \in {"tablet-status", "disconnect"} /\ MapHas(m, op.conn)

\* C18: writes are not awaited.  When a handler that writes a tablet row has
\* run, its registry change is made and its event is emitted to every other
\* open socket, while its query is in flight, issued last, and the stored rows
\* are as they were; and whichever queries are in flight, the pool may complete
\* any one of them next, not only the one issued first.
C18_WritesNotAwaited ==
    /\ [](\A i \in 1..Len(pending) : ENABLED DbApply(i))
    /\ [][ WritesTablet(lastOp', activeTablets)
           => /\ dbTablets' = dbTablets
              /\ dbLogs' = dbLogs
              /\ Len(pending') = Len(pending) + 1
              /\ SubSeq(pending', 1, Len(pending)) = pending
              /\ pending'[Len(pending')].table = "tablets"
              /\ lastOp'.kind # "disconnect"
                 => /\ MapHas(activeTablets', lastOp'.conn)
                    /\ pending'[Len(pending')]
                         = UpdateTabletQuery(MapGet(activeTablets', lastOp'.conn))
              /\ lastOp'.kind = "disconnect"
                 => /\ ~MapHas(activeTablets', lastOp'.conn)
                    /\ pending'[Len(pending')].row.status = "offline"
              /\ Len(out') = Cardinality(Open(sockets') \ {lastOp'.conn})
              /\ \A j \in 1..Len(out') :
                   out'[j].ev = FannedOut(lastOp', activeTablets) ]_vars

\* C18 witness: a socket registered as "A" and disconnected before the first
\* write was applied; the offline write was applied first and the online write
\* after it, so with no query left in flight and no tablet in the registry the
\* stored row of "A" says online
C18_Witness ==
    /\ lastOp.kind = "db-apply"
    /\ pending = <<>>
    /\ activeTablets = <<>>
    /\ Cardinality(usedIds) = 1
    /\ \E r \in dbTablets : r.id = "A" /\ r.status = "online"

\* C19: whatever its payload, a 'send-command' delivers a 'remote-command' only
\* to a socket that has a record whose logical id equals the payload's
\* tabletId, and issues a command-log query only when some record carries that
\* id; this holds for a payload without tabletId too.
C19_DeliveredOnlyToBoundTarget ==
    [][ lastOp'.kind = "send-command"
        => /\ \A i \in 1..Len(out') :
                out'[i].ev = "remote-command"
                => /\ MapHas(activeTablets, out'[i].to)
                   /\ MapGet(activeTablets, out'[i].to).id = lastOp'.data.tabletId
           /\ pending' # pending
              => BindingsOf(activeTablets, lastOp'.data.tabletId) # {} ]_vars

\* C20: in every state and for every logical id, the lookup of 'send-command'
\* and the lookup of POST /api/command/:tabletId give the same answer: both
\* find no target, or both find the same socket, also when several records
\* carry the id.
C20_DispatchPathsAgree ==
    \A id \in DispatchIds :
        SocketLookup(sockets, activeTablets, id)
            = RestLookup(sockets, activeTablets, id)

\* C21: whenever no query is in flight, every logical id that was ever
\* registered has a stored row, and that row says online if some entry of the
\* registry carries the id and offline if none does.
C21_StoredStatusFollowsRegistry ==
    pending = <<>>
    => \A id \in everIds :
         \E r \in dbTablets :
            /\ r.id = id
            /\ r.status = IF BindingsOf(activeTablets, id) # {}
                          THEN "online" ELSE "offline"

\* C22: between handlers every record in the registry has status online, so
\* GET /api/stats reports as many online tablets as tablets in all.
C22_ActiveRecordsOnline ==
    /\ \A i \in 1..Len(activeTablets) : activeTablets[i].val.status = "online"
    /\ Stats(activeTablets, now).onlineTablets
         = Stats(activeTablets, now).totalTablets

\* C22 witness: a sweep has marked one of two records offline and deleted it;
\* the stats count the one record left, online
C22_Witness ==
    /\ lastOp.kind = "sweep"
    /\ \E i \in 1..Len(pending) : pending[i].row.status = "offline"
    /\ Stats(activeTablets, now).totalTablets = 1
    /\ Stats(activeTablets, now).onlineTablets = 1

====
